---------------------------- MODULE Spec2Model ----------------------------
(***************************************************************************)
(* PostureCheck client (src/src/public/app.js) as a state machine.         *)
(*                                                                         *)
(* Number model.  JavaScript numbers are doubles; here every feature       *)
(* value is a fixed-point integer and every arithmetic step of the code    *)
(* that rounds in floating point rounds to the nearest unit (Round10).     *)
(* Centroids are kept as exact fractions (sum over count) and distances    *)
(* are compared through their squares, so that the classifier's decisions  *)
(* are exact.                                                              *)
(*                                                                         *)
(* Time model.  clock is performance.now() in ms; Date.now() is            *)
(* TimeOrigin + clock.  Time advances only when a callback runs: a frame   *)
(* callback runs dt ms after the previous event, a setTimeout callback     *)
(* runs exactly at its deadline, and no event runs later than a pending    *)
(* timer's deadline.  The 800 ms title interval is fired at any moment     *)
(* while it is active (its period is not modelled).                        *)
(***************************************************************************)
EXTENDS Integers, Sequences, FiniteSets, TLC

(***************************************************************************)
(* Bounds of the model                                                     *)
(***************************************************************************)
\* ms between two frame callbacks that do not share a timestamp
TickStep == 1000
\* frames are scheduled while clock < MaxClock (general specification)
MaxClock == 2000
\* the same for the alert specification
MaxClockAlert == 6000
\* the same for the long-running alert scenario
MaxClockLong == 36000
\* number of captures explored beyond the loaded store
MaxCaptures == 1
\* the last frame time of a session about configuration import
MaxClockConfig == 1000
\* the last frame time of a session about the notification channels
MaxClockNotify == 4000
\* the last frame time of a session about the score
MaxClockScore == 4000
\* the last frame time of a session that is one long bad episode
MaxClockEpisode == 12000
\* the last frame time of a session about persistence
MaxClockPersist == 1000
\* end of the session in which an episode outlasts an unknown model
MaxClockSurvive == 2000
\* Date.now() at page load, ms
TimeOrigin == 1000000

(***************************************************************************)
(* Program constants                                                       *)
(***************************************************************************)
\* SMOOTH = 0.3, in tenths
SMOOTH == 3
\* a class needs at least this many samples
MIN_SAMPLES == 3
\* setTimeout(hideAlert, 5000)
HIDE_DELAY == 5000
\* setTimeout(connectWebSocket, 3000)
RECONNECT_DELAY == 3000
TITLE_DEFAULT == "PostureCheck"
TITLE_ALERT == "Fix Your Posture!"
CONFIG_TYPE == "PostureCheck Config"

(***************************************************************************)
(* JavaScript values, as far as the code distinguishes them                *)
(***************************************************************************)
Undef == [t |-> "undefined", v |-> 0]
JNull == [t |-> "null", v |-> 0]
Str(s) == [t |-> "string", v |-> s]
Num(n) == [t |-> "number", v |-> n]
Bool(b) == [t |-> "boolean", v |-> b]
Arr(q) == [t |-> "array", v |-> q]

\* ToBoolean, as used by `if (x)`
Truthy(x) ==
  CASE x.t = "undefined" -> FALSE
    [] x.t = "null" -> FALSE
    [] x.t = "string" -> x.v # ""
    [] x.t = "number" -> x.v # 0
    [] x.t = "boolean" -> x.v
    [] OTHER -> TRUE

\* null / a value, for variables that hold `null` or one value
None == <<>>
Some(x) == <<x>>
IsNone(o) == o = <<>>
Val(o) == o[1]

Round10(n) == (n + 5) \div 10

(***************************************************************************)
(* Camera angle profiles                                                   *)
(***************************************************************************)
M(fn, w) == [fn |-> fn, weight |-> w]

\* weights in tenths
ANGLE_PROFILES ==
  [a \in {"front", "front-left", "front-right", "side-left", "side-right"} |->
    CASE a = "front" ->
           << M("shoulderTilt", 10), M("headForwardZ", 6),
              M("lateralLean", 10), M("headDrop", 8) >>
      [] a \in {"front-left", "front-right"} ->
           << M("shoulderTilt", 7), M("headForwardZ", 10),
              M("spineAngle", 10), M("headDrop", 8) >>
      [] OTHER ->
           << M("headForwardZ", 10), M("spineAngle", 10),
              M("headDrop", 9), M("neckAngle", 8) >> ]

Angles == DOMAIN ANGLE_PROFILES
HasProfile(a) == a \in Angles

FeatureFns ==
  {"shoulderTilt", "headForwardZ", "lateralLean", "headDrop", "spineAngle", "neckAngle"}

SOUND_BITES == {"chime", "airhorn", "bruh", "oof", "dramatic"}


(***************************************************************************)
(* Frames delivered by the pose estimator                                  *)
(*                                                                         *)
(* A pose gives the value each metric function returns on the frame's      *)
(* keypoints.                                                              *)
(***************************************************************************)
Upright == [f \in FeatureFns |-> 0]
Slouched == [f \in FeatureFns |-> 4]
Poses == {Upright, Slouched}

\* what one call of poseLandmarker.detectForVideo yields
FrameInputs ==
  {[kind |-> "error", pose |-> Upright], [kind |-> "nopose", pose |-> Upright]}
    \cup {[kind |-> "pose", pose |-> p] : p \in Poses}

(***************************************************************************)
(* Program state as one record; the handlers below are functions on it.    *)
(* threw marks that the running handler has thrown: the rest of the        *)
(* handler is skipped, what it assigned before stays.                      *)
(***************************************************************************)
VARIABLES
  phase,             \* "boot" | "loading" | "running" | "failed": where init() is
  running,
  clock,             \* performance.now()
  lastFrameTime,
  rafPending,        \* detect callbacks scheduled by requestAnimationFrame
  cameraAngle,
  currentFeatures,
  smoothedFeatures,
  trainingSamples,
  trainedModel,
  badPostureSince,
  lastAlertTime,
  selectedSound,
  notifPermission,
  titleFlashInterval,
  activeIntervals,   \* intervals created by setInterval and not cleared
  on,                \* the closure variable of the interval
  title,             \* document.title
  overlayHidden,     \* alertOverlay has class "hidden"
  ws,                \* readyState of the socket held by ws
  hideTimers,        \* deadlines of pending setTimeout(hideAlert, 5000)
  reconnectTimers,   \* deadlines of pending setTimeout(connectWebSocket, 3000)
  threshScore,       \* threshScoreEl.value
  alertDelay,        \* alertDelayEl.value
  alertCooldown,     \* alertCooldownEl.value
  soundEnabled,      \* soundEnabledEl.checked
  notifyEnabled,     \* notifyEnabledEl.checked
  persisted,         \* localStorage["posture-v2"]
  configTextarea,    \* configTextarea.value as the program last set it
  configStatus,      \* configStatus.className after the last import
  captures,          \* captures performed (bounds the exploration)
  emitted,           \* what the last handler sent to the outside
  threw,             \* the last handler ended by an uncaught exception
  landmarks,         \* the keypoints a metric function is called with
  measured           \* the metric function last called and what it returned

\* the state of the page
pageVars ==
  << phase, running, clock, lastFrameTime, rafPending, cameraAngle,
     currentFeatures, smoothedFeatures, trainingSamples, trainedModel,
     badPostureSince, lastAlertTime, selectedSound, notifPermission,
     titleFlashInterval, activeIntervals, on, title, overlayHidden, ws,
     hideTimers, reconnectTimers, threshScore, alertDelay, alertCooldown,
     soundEnabled, notifyEnabled, persisted, configTextarea, configStatus,
     captures, emitted, threw >>

vars == << pageVars, landmarks, measured >>

Quiet ==
  [fire |-> FALSE, clear |-> FALSE, sound |-> FALSE, browser |-> 0, relay |-> 0,
   isGood |-> "none"]

\* the state a handler starts from
Cur ==
  [phase |-> phase, running |-> running, clock |-> clock,
   lastFrameTime |-> lastFrameTime, rafPending |-> rafPending,
   cameraAngle |-> cameraAngle, currentFeatures |-> currentFeatures,
   smoothedFeatures |-> smoothedFeatures, trainingSamples |-> trainingSamples,
   trainedModel |-> trainedModel, badPostureSince |-> badPostureSince,
   lastAlertTime |-> lastAlertTime, selectedSound |-> selectedSound,
   notifPermission |-> notifPermission,
   titleFlashInterval |-> titleFlashInterval,
   activeIntervals |-> activeIntervals, on |-> on, title |-> title,
   overlayHidden |-> overlayHidden, ws |-> ws, hideTimers |-> hideTimers,
   reconnectTimers |-> reconnectTimers, threshScore |-> threshScore,
   alertDelay |-> alertDelay, alertCooldown |-> alertCooldown,
   soundEnabled |-> soundEnabled, notifyEnabled |-> notifyEnabled,
   persisted |-> persisted, configTextarea |-> configTextarea,
   configStatus |-> configStatus, captures |-> captures,
   emitted |-> Quiet, threw |-> FALSE]

\* the state a handler leaves
Becomes(s) ==
  /\ phase' = s.phase
  /\ running' = s.running
  /\ clock' = s.clock
  /\ lastFrameTime' = s.lastFrameTime
  /\ rafPending' = s.rafPending
  /\ cameraAngle' = s.cameraAngle
  /\ currentFeatures' = s.currentFeatures
  /\ smoothedFeatures' = s.smoothedFeatures
  /\ trainingSamples' = s.trainingSamples
  /\ trainedModel' = s.trainedModel
  /\ badPostureSince' = s.badPostureSince
  /\ lastAlertTime' = s.lastAlertTime
  /\ selectedSound' = s.selectedSound
  /\ notifPermission' = s.notifPermission
  /\ titleFlashInterval' = s.titleFlashInterval
  /\ activeIntervals' = s.activeIntervals
  /\ on' = s.on
  /\ title' = s.title
  /\ overlayHidden' = s.overlayHidden
  /\ ws' = s.ws
  /\ hideTimers' = s.hideTimers
  /\ reconnectTimers' = s.reconnectTimers
  /\ threshScore' = s.threshScore
  /\ alertDelay' = s.alertDelay
  /\ alertCooldown' = s.alertCooldown
  /\ soundEnabled' = s.soundEnabled
  /\ notifyEnabled' = s.notifyEnabled
  /\ persisted' = s.persisted
  /\ configTextarea' = s.configTextarea
  /\ configStatus' = s.configStatus
  /\ captures' = s.captures
  /\ emitted' = s.emitted
  /\ threw' = s.threw
  /\ UNCHANGED <<landmarks, measured>>

Throw(s) == [s EXCEPT !.threw = TRUE]
\* statement sequencing: F runs unless s has thrown
Then(s, F(_)) == IF s.threw THEN s ELSE F(s)

DateNow(s) == TimeOrigin + s.clock

(***************************************************************************)
(* The metric functions on keypoints                                       *)
(*                                                                         *)
(* norm[i] is keypoint i in image coordinates with its visibility,         *)
(* world[i] the same keypoint in space.  Lengths are in thousandths,       *)
(* visibilities in hundredths, angles in whole degrees, lateralLean in     *)
(* hundredths of a shoulder width.                                         *)
(***************************************************************************)
Abs(n) == IF n < 0 THEN -n ELSE n
Sign(n) == IF n < 0 THEN -1 ELSE IF n > 0 THEN 1 ELSE 0

\* 10000 * tan(k - 1/2 degrees) for k = 1..90
TanHalfDegrees ==
  << 87, 262, 437, 612, 787, 963, 1139, 1317, 1495, 1673, 1853, 2035, 2217,
     2401, 2586, 2773, 2962, 3153, 3346, 3541, 3739, 3939, 4142, 4348, 4557,
     4770, 4986, 5206, 5430, 5658, 5890, 6128, 6371, 6619, 6873, 7133, 7400,
     7673, 7954, 8243, 8541, 8847, 9163, 9490, 9827, 10176, 10538, 10913,
     11303, 11708, 12131, 12572, 13032, 13514, 14019, 14550, 15108, 15697,
     16319, 16977, 17675, 18418, 19210, 20057, 20965, 21943, 22998, 24142,
     25386, 26746, 28239, 29887, 31716, 33759, 36059, 38667, 41653, 45107,
     49152, 53955, 59758, 66912, 75958, 87769, 103854, 127062, 163499,
     229038, 381885, 1145887 >>

\* atan(p / q) in degrees, to the nearest degree, for p >= 0 and q > 0
AtanDeg(p, q) ==
  Cardinality({k \in DOMAIN TanHalfDegrees : p * 10000 >= q * TanHalfDegrees[k]})

\* Math.atan2(y, x) * (180 / Math.PI)
Atan2Deg(y, x) ==
  IF x > 0 THEN Sign(y) * AtanDeg(Abs(y), x)
  ELSE IF x < 0 THEN (IF y < 0 THEN -1 ELSE 1) * (180 - AtanDeg(Abs(y), -x))
  ELSE 90 * Sign(y)

\* v || 0.001
OrTiny(v) == IF v = 0 THEN 1 ELSE v

\* a / b, cut to a whole number
Quot(a, b) == Sign(a) * Sign(b) * (Abs(a) \div Abs(b))

\* Math.sqrt(n), cut to a whole number
Sqrt(n, limit) == CHOOSE r \in 0..limit : r * r <= n /\ n < (r + 1) * (r + 1)

shoulderTilt(norm, world) ==
  LET ls == norm[11]
      rs == norm[12]
  IN  IF ls.visibility < 40 \/ rs.visibility < 40 THEN 0
      ELSE Atan2Deg(rs.y - ls.y, OrTiny(Abs(rs.x - ls.x)))

headForwardZ(norm, world) ==
  LET nose == world[0]
      ls == world[11]
      rs == world[12]
  IN  IF norm[0].visibility < 40 \/ norm[11].visibility < 40
         \/ norm[12].visibility < 40
      THEN 0
      ELSE nose.z - (ls.z + rs.z) \div 2

lateralLean(norm, world) ==
  LET nose == norm[0]
      ls == norm[11]
      rs == norm[12]
  IN  IF nose.visibility < 40 \/ ls.visibility < 40 \/ rs.visibility < 40
      THEN 0
      ELSE Quot((nose.x - (ls.x + rs.x) \div 2) * 100,
                OrTiny(Abs(rs.x - ls.x)))

headDrop(norm, world) ==
  LET nose == norm[0]
      ls == norm[11]
      rs == norm[12]
  IN  IF nose.visibility < 40 \/ ls.visibility < 40 \/ rs.visibility < 40
      THEN 0
      ELSE (ls.y + rs.y) \div 2 - nose.y

spineAngle(norm, world) ==
  LET ls == world[11]
      rs == world[12]
      lh == world[23]
      rh == world[24]
      nose == world[0]
      sMidX == (ls.x + rs.x) \div 2
      sMidY == (ls.y + rs.y) \div 2
      hipMidX == (lh.x + rh.x) \div 2
      hipMidY == (lh.y + rh.y) \div 2
  IN  IF norm[11].visibility < 30 \/ norm[12].visibility < 30 THEN 0
      ELSE IF norm[23].visibility < 20 \/ norm[24].visibility < 20
      THEN Atan2Deg(nose.x - sMidX, OrTiny(Abs(nose.y - sMidY)))
      ELSE Atan2Deg(sMidX - hipMidX, OrTiny(hipMidY - sMidY))

neckAngle(norm, world) ==
  LET nose == world[0]
      ls == world[11]
      rs == world[12]
      dx == nose.x - (ls.x + rs.x) \div 2
      dy == nose.y - (ls.y + rs.y) \div 2
      dz == nose.z - (ls.z + rs.z) \div 2
      horizontal == Sqrt(dx * dx + dz * dz, Abs(dx) + Abs(dz))
  IN  IF norm[0].visibility < 40 \/ norm[11].visibility < 30
         \/ norm[12].visibility < 30
      THEN 0
      ELSE Atan2Deg(horizontal, OrTiny(Abs(dy)))

FEATURE_FNS(fn, norm, world) ==
  CASE fn = "shoulderTilt" -> shoulderTilt(norm, world)
    [] fn = "headForwardZ" -> headForwardZ(norm, world)
    [] fn = "lateralLean" -> lateralLean(norm, world)
    [] fn = "headDrop" -> headDrop(norm, world)
    [] fn = "spineAngle" -> spineAngle(norm, world)
    [] fn = "neckAngle" -> neckAngle(norm, world)

\* the keypoints the metric functions read
Keypoints == {0, 11, 12, 23, 24}

\* a person sitting straight, and one leaning with the head forward
StraightNorm ==
  [i \in Keypoints |->
     CASE i = 0 -> [x |-> 500, y |-> 200]
       [] i = 11 -> [x |-> 600, y |-> 400]
       [] i = 12 -> [x |-> 400, y |-> 400]
       [] i = 23 -> [x |-> 600, y |-> 800]
       [] i = 24 -> [x |-> 400, y |-> 800]]
StraightWorld ==
  [i \in Keypoints |->
     CASE i = 0 -> [x |-> 0, y |-> -600, z |-> 0]
       [] i = 11 -> [x |-> 200, y |-> -400, z |-> 0]
       [] i = 12 -> [x |-> -200, y |-> -400, z |-> 0]
       [] i = 23 -> [x |-> 100, y |-> 0, z |-> 0]
       [] i = 24 -> [x |-> -100, y |-> 0, z |-> 0]]
LeaningNorm ==
  [i \in Keypoints |->
     CASE i = 0 -> [x |-> 600, y |-> 300]
       [] i = 11 -> [x |-> 600, y |-> 400]
       [] i = 12 -> [x |-> 400, y |-> 500]
       [] i = 23 -> [x |-> 600, y |-> 800]
       [] i = 24 -> [x |-> 400, y |-> 800]]
LeaningWorld ==
  [i \in Keypoints |->
     CASE i = 0 -> [x |-> 200, y |-> -500, z |-> -200]
       [] i = 11 -> [x |-> 300, y |-> -400, z |-> 0]
       [] i = 12 -> [x |-> -100, y |-> -300, z |-> 0]
       [] i = 23 -> [x |-> 100, y |-> 0, z |-> 0]
       [] i = 24 -> [x |-> -100, y |-> 0, z |-> 0]]
Skeletons ==
  {[norm |-> StraightNorm, world |-> StraightWorld],
   [norm |-> LeaningNorm, world |-> LeaningWorld]}

\* visibilities on each side of the limits 0.2, 0.3 and 0.4
Visibilities == {10, 25, 35, 50}

Seen(skeleton, visibility) ==
  [norm |-> [i \in Keypoints |->
               [x |-> skeleton.norm[i].x, y |-> skeleton.norm[i].y,
                visibility |-> visibility[i]]],
   world |-> skeleton.world]

\* what result.landmarks[0] and result.worldLandmarks[0] can be
LandmarkInputs ==
  {Seen(sk, v) : sk \in Skeletons, v \in [Keypoints -> Visibilities]}

(***************************************************************************)
(* Feature extraction and smoothing                                        *)
(***************************************************************************)
\* FEATURE_FNS[fn](norm, world)
FeatureFn(fn, pose) == pose[fn]

\* val * m.weight
Weighted(val, weight) == Round10(val * weight)

\* extractFeatures; defined when cameraAngle has a profile
extractFeatures(angle, pose) ==
  [i \in 1..Len(ANGLE_PROFILES[angle]) |->
     Weighted(FeatureFn(ANGLE_PROFILES[angle][i].fn, pose),
              ANGLE_PROFILES[angle][i].weight)]

\* smoothedFeatures[i] * (1 - SMOOTH) + features[i] * SMOOTH
SmoothStep(sm, f) == Round10(sm * (10 - SMOOTH) + f * SMOOTH)

Smooth(smoothed, features) ==
  IF IsNone(smoothed)
    THEN Some(features)
    ELSE Some([i \in 1..Len(features) |-> SmoothStep(Val(smoothed)[i], features[i])])

(***************************************************************************)
(* Classification                                                          *)
(***************************************************************************)
RECURSIVE SumDim(_, _)
\* sum of s.features[i] over the samples of q
SumDim(q, i) == IF q = <<>> THEN 0 ELSE Head(q).features[i] + SumDim(Tail(q), i)

\* trainingSamples.filter((s) => s.label === label && s.angle === cameraAngle)
SamplesFor(samples, label, angle) ==
  SelectSeq(samples, LAMBDA x : x.label = label /\ x.angle = angle)

\* a centroid: per dimension the fraction <<sum, count>>
Centroid(q, numFeatures) == [i \in 1..numFeatures |-> << SumDim(q, i), Len(q) >>]

retrainModel(s) ==
  IF ~HasProfile(s.cameraAngle) THEN Throw(s)          \* profile.metrics of undefined
  ELSE IF s.trainingSamples.t # "array" THEN Throw(s)  \* .filter is not a function
  ELSE
    LET numFeatures == Len(ANGLE_PROFILES[s.cameraAngle])
        goodSamples == SamplesFor(s.trainingSamples.v, "good", s.cameraAngle)
        badSamples == SamplesFor(s.trainingSamples.v, "bad", s.cameraAngle)
    IN IF Len(goodSamples) < MIN_SAMPLES \/ Len(badSamples) < MIN_SAMPLES
         THEN [s EXCEPT !.trainedModel = None]
         ELSE [s EXCEPT !.trainedModel =
                 Some([goodCentroid |-> Centroid(goodSamples, numFeatures),
                       badCentroid |-> Centroid(badSamples, numFeatures)])]

RECURSIVE SqSum(_, _, _)
\* sum over i <= k of (a[i] * den - num[i])^2, for a centroid b of fractions
SqSum(a, b, k) ==
  IF k = 0 THEN 0
  ELSE (a[k] * b[k][2] - b[k][1]) * (a[k] * b[k][2] - b[k][1]) + SqSum(a, b, k - 1)

\* vectorDist(a, b) squared, as the fraction <<numerator, denominator>>
vectorDist2(a, b) == << SqSum(a, b, Len(a)), b[1][2] * b[1][2] >>

\* totalDist < 0.0001: on this grid a non-zero distance is at least 1/count,
\* so the sum is below 1e-4 only when both squares are below 1e-8
TotalBelowEps(g, b) ==
  /\ g[1] < (g[2] + 99999999) \div 100000000
  /\ b[1] < (b[2] + 99999999) \div 100000000

\* classifyPosture that divides distGood by the total
classifyPostureSwapped(features, model) ==
  IF IsNone(model) THEN None
  ELSE LET distGood2 == vectorDist2(features, Val(model).goodCentroid)
           distBad2 == vectorDist2(features, Val(model).badCentroid)
       IN Some([half |-> TotalBelowEps(distGood2, distBad2),
                g |-> distBad2, b |-> distGood2])

\* classifyPosture without the test of totalDist
classifyPostureNoFallback(features, model) ==
  IF IsNone(model) THEN None
  ELSE LET distGood2 == vectorDist2(features, Val(model).goodCentroid)
           distBad2 == vectorDist2(features, Val(model).badCentroid)
       IN Some([half |-> FALSE, g |-> distGood2, b |-> distBad2])

\* classifyPosture: null, or the score distBad / (distGood + distBad) kept as
\* the two squared distances (half: the 0.5 of the degenerate case)
classifyPosture(features, model) ==
  IF IsNone(model) THEN None
  ELSE LET distGood2 == vectorDist2(features, Val(model).goodCentroid)
           distBad2 == vectorDist2(features, Val(model).badCentroid)
       IN Some([half |-> TotalBelowEps(distGood2, distBad2),
                g |-> distGood2, b |-> distBad2])

\* score >= p, p in tenths
\* sqrt(b)/(sqrt(g)+sqrt(b)) >= p  <=>  (1-p)^2 b >= p^2 g   for 0 <= p <= 1
ScoreAtLeast(score, p) ==
  IF score.half THEN 5 >= p
  ELSE (10 - p) * (10 - p) * score.b[1] * score.g[2]
         >= p * p * score.g[1] * score.b[2]

\* parseFloat(threshScoreEl.value), in tenths
parseFloat10(v) ==
  CASE v = "0" -> 0 [] v = "0.5" -> 5 [] v = "1" -> 10 [] OTHER -> 5

\* parseInt(el.value)
parseInt(v) ==
  CASE v = "0" -> 0 [] v = "1" -> 1 [] v = "2" -> 2 [] v = "5" -> 5
    [] v = "30" -> 30 [] OTHER -> 0

\* score > p, p in tenths
ScoreAbove(score, p) ==
  IF score.half THEN 5 > p
  ELSE (10 - p) * (10 - p) * score.b[1] * score.g[2]
         > p * p * score.g[1] * score.b[2]

\* score === null ? null : score > threshold
IsGoodOfStrict(score, thresh) ==
  IF IsNone(score) THEN None
  ELSE Some(ScoreAbove(Val(score), parseFloat10(thresh)))

\* score === null ? null : score >= threshold
IsGoodOf(score, thresh) ==
  IF IsNone(score) THEN None
  ELSE Some(ScoreAtLeast(Val(score), parseFloat10(thresh)))

(***************************************************************************)
(* Alerts                                                                  *)
(***************************************************************************)
\* startTitleFlash without the test of titleFlashInterval
startTitleFlashUnguarded(s) ==
  [s EXCEPT !.on = TRUE,
            !.titleFlashInterval = Some(1),
            !.activeIntervals = @ + 1]

startTitleFlash(s) ==
  IF ~IsNone(s.titleFlashInterval) THEN s
  ELSE [s EXCEPT !.on = TRUE,
                 !.titleFlashInterval = Some(1),
                 !.activeIntervals = @ + 1]

stopTitleFlash(s) ==
  IF ~IsNone(s.titleFlashInterval)
    THEN [s EXCEPT !.activeIntervals = @ - 1,
                   !.titleFlashInterval = None,
                   !.title = TITLE_DEFAULT]
    ELSE s

\* hideAlert that leaves the title flash running
hideAlertOverlayOnly(s) == [s EXCEPT !.overlayHidden = TRUE]

hideAlert(s) == stopTitleFlash([s EXCEPT !.overlayHidden = TRUE])

\* a notification step that uses the relay in addition to the notification
notifyStepBoth(s, notifOk) ==
  IF ~s.notifyEnabled THEN s
  ELSE
    LET s1 == IF s.notifPermission = "granted"
                THEN [s EXCEPT !.emitted.browser = @ + (IF notifOk THEN 1 ELSE 0)]
                ELSE s
    IN IF s.ws = "OPEN" THEN [s1 EXCEPT !.emitted.relay = @ + 1] ELSE s1

\* a notification step that sends without looking at the socket's readyState
notifyStepAnySocket(s, notifOk) ==
  IF ~s.notifyEnabled THEN s
  ELSE IF s.notifPermission = "granted"
    THEN [s EXCEPT !.emitted.browser = @ + (IF notifOk THEN 1 ELSE 0)]
  ELSE [s EXCEPT !.emitted.relay = @ + 1]

\* the notification step of fireAlert; notifOk: new Notification(...) does not throw
notifyStep(s, notifOk) ==
  IF ~s.notifyEnabled THEN s
  ELSE IF s.notifPermission = "granted"
    THEN [s EXCEPT !.emitted.browser = @ + (IF notifOk THEN 1 ELSE 0)]
  ELSE IF s.ws = "OPEN"
    THEN [s EXCEPT !.emitted.relay = @ + 1]
  ELSE s

\* fireAlert without the setTimeout of hideAlert
fireAlertNoTimer(s, notifOk) ==
  LET s1 == [s EXCEPT !.overlayHidden = FALSE,
                      !.emitted.fire = TRUE,
                      !.emitted.sound = s.soundEnabled]
      s2 == notifyStep(s1, notifOk)
  IN startTitleFlash(s2)

fireAlert(s, notifOk) ==
  LET s1 == [s EXCEPT !.overlayHidden = FALSE,
                      !.emitted.fire = TRUE,
                      !.emitted.sound = s.soundEnabled]
      s2 == notifyStep(s1, notifOk)
      s3 == startTitleFlash(s2)
  IN [s3 EXCEPT !.hideTimers = Append(@, s.clock + HIDE_DELAY)]

\* !badPostureSince
NoBadSince(s) == IsNone(s.badPostureSince) \/ Val(s.badPostureSince) = 0

\* handleAlerts with "if" in place of "else if": the frame that starts the
\* episode may fire
handleAlertsFirstFrame(s, isGood, notifOk) ==
  IF IsNone(isGood) THEN s
  ELSE
    LET now == DateNow(s)
        delay == parseInt(s.alertDelay) * 1000
        cooldown == parseInt(s.alertCooldown) * 1000
        s0 == IF NoBadSince(s) THEN [s EXCEPT !.badPostureSince = Some(now)] ELSE s
    IN IF ~Val(isGood)
         THEN IF now - Val(s0.badPostureSince) >= delay
                 /\ now - s0.lastAlertTime >= cooldown
                THEN [fireAlert(s0, notifOk) EXCEPT !.lastAlertTime = now]
              ELSE s0
         ELSE [hideAlert([s EXCEPT !.badPostureSince = None])
                 EXCEPT !.emitted.clear = TRUE]

\* handleAlerts without the cooldown test
handleAlertsNoCooldown(s, isGood, notifOk) ==
  IF IsNone(isGood) THEN s
  ELSE
    LET now == DateNow(s)
        delay == parseInt(s.alertDelay) * 1000
    IN IF ~Val(isGood)
         THEN IF NoBadSince(s)
                THEN [s EXCEPT !.badPostureSince = Some(now)]
              ELSE IF now - Val(s.badPostureSince) >= delay
                THEN [fireAlert(s, notifOk) EXCEPT !.lastAlertTime = now]
              ELSE s
         ELSE [hideAlert([s EXCEPT !.badPostureSince = None])
                 EXCEPT !.emitted.clear = TRUE]

\* handleAlerts without the early return on null: null is falsy, so the bad
\* branch runs
handleAlertsNoNullReturn(s, isGood, notifOk) ==
  LET now == DateNow(s)
      delay == parseInt(s.alertDelay) * 1000
      cooldown == parseInt(s.alertCooldown) * 1000
  IN IF IsNone(isGood) \/ ~Val(isGood)
       THEN IF NoBadSince(s)
              THEN [s EXCEPT !.badPostureSince = Some(now)]
            ELSE IF now - Val(s.badPostureSince) >= delay
                    /\ now - s.lastAlertTime >= cooldown
              THEN [fireAlert(s, notifOk) EXCEPT !.lastAlertTime = now]
            ELSE s
       ELSE [hideAlert([s EXCEPT !.badPostureSince = None])
               EXCEPT !.emitted.clear = TRUE]

\* handleAlerts that resets badPostureSince when it fires
handleAlertsResetAfterFire(s, isGood, notifOk) ==
  IF IsNone(isGood) THEN s
  ELSE
    LET now == DateNow(s)
        delay == parseInt(s.alertDelay) * 1000
        cooldown == parseInt(s.alertCooldown) * 1000
    IN IF ~Val(isGood)
         THEN IF NoBadSince(s)
                THEN [s EXCEPT !.badPostureSince = Some(now)]
              ELSE IF now - Val(s.badPostureSince) >= delay
                      /\ now - s.lastAlertTime >= cooldown
                THEN [fireAlert(s, notifOk) EXCEPT !.lastAlertTime = now,
                                                   !.badPostureSince = None]
              ELSE s
         ELSE [hideAlert([s EXCEPT !.badPostureSince = None])
                 EXCEPT !.emitted.clear = TRUE]

handleAlerts(s, isGood, notifOk) ==
  IF IsNone(isGood) THEN s
  ELSE
    LET now == DateNow(s)
        delay == parseInt(s.alertDelay) * 1000
        cooldown == parseInt(s.alertCooldown) * 1000
    IN IF ~Val(isGood)
         THEN IF NoBadSince(s)
                THEN [s EXCEPT !.badPostureSince = Some(now)]
              ELSE IF now - Val(s.badPostureSince) >= delay
                      /\ now - s.lastAlertTime >= cooldown
                THEN [fireAlert(s, notifOk) EXCEPT !.lastAlertTime = now]
              ELSE s
         ELSE [hideAlert([s EXCEPT !.badPostureSince = None])
                 EXCEPT !.emitted.clear = TRUE]

(***************************************************************************)
(* UI updates: they change no modelled state, but they read the state and  *)
(* throw a TypeError when it has not the shape they expect.                *)
(***************************************************************************)
\* trainingSamples.filter(...)
updateStatus(s) == IF s.trainingSamples.t # "array" THEN Throw(s) ELSE s

\* profile.metrics[i]
updateMetricLabels(s) == IF ~HasProfile(s.cameraAngle) THEN Throw(s) ELSE s

\* trainingSamples.filter(...); ANGLE_PROFILES[cameraAngle].label when trained
updateTrainingUI(s) ==
  IF s.trainingSamples.t # "array" THEN Throw(s)
  ELSE IF ~IsNone(s.trainedModel) /\ ~HasProfile(s.cameraAngle) THEN Throw(s)
  ELSE updateStatus(s)

updateMetricsUI(s) ==
  LET s1 == IF IsNone(s.trainedModel) THEN updateStatus(s) ELSE s
  IN Then(s1, updateMetricLabels)

resetSmoothed(s) == [s EXCEPT !.smoothedFeatures = None]

\* updateCameraAngleUI that does not retrain
updateCameraAngleUINoRetrain(s) ==
  Then(Then(updateMetricLabels(s), resetSmoothed), updateTrainingUI)

\* updateCameraAngleUI that also ends the bad episode
resetEpisode(s) == [s EXCEPT !.smoothedFeatures = None, !.badPostureSince = None]
updateCameraAngleUIEndsEpisode(s) ==
  Then(Then(Then(updateMetricLabels(s), resetEpisode), retrainModel), updateTrainingUI)

updateCameraAngleUI(s) ==
  Then(Then(Then(updateMetricLabels(s), resetSmoothed), retrainModel), updateTrainingUI)

(***************************************************************************)
(* Detection loop                                                          *)
(***************************************************************************)
requestAnimationFrame(s) == [s EXCEPT !.rafPending = @ + 1]

\* lines 358-386: a frame with a detected pose
processPose(s, pose, notifOk) ==
  IF ~HasProfile(s.cameraAngle) THEN Throw(s)      \* extractFeatures
  ELSE
    LET features == extractFeatures(s.cameraAngle, pose)
        sm == Smooth(s.smoothedFeatures, features)
        s1 == [s EXCEPT !.smoothedFeatures = sm, !.currentFeatures = sm]
        score == classifyPosture(Val(sm), s1.trainedModel)
        isGood == IsGoodOf(score, s1.threshScore)
        s2 == [s1 EXCEPT !.emitted.isGood =
                 IF IsNone(isGood) THEN "unknown"
                 ELSE IF Val(isGood) THEN "good" ELSE "bad"]
        s3 == updateMetricsUI(s2)
    IN IF s3.threw THEN s3 ELSE handleAlerts(s3, isGood, notifOk)

\* detect without the comparison of now with lastFrameTime
detectNoDuplicateCheck(s, input, notifOk) ==
  IF ~s.running THEN s
  ELSE
    LET s1 == [s EXCEPT !.lastFrameTime = s.clock]
    IN IF input.kind = "error" THEN requestAnimationFrame(s1)
       ELSE IF input.kind = "nopose" THEN requestAnimationFrame(s1)
       ELSE Then(processPose(s1, input.pose, notifOk), requestAnimationFrame)

\* detect, run at s.clock
detect(s, input, notifOk) ==
  IF ~s.running THEN s
  ELSE IF s.clock = s.lastFrameTime THEN requestAnimationFrame(s)
  ELSE
    LET s1 == [s EXCEPT !.lastFrameTime = s.clock]
    IN IF input.kind = "error" THEN requestAnimationFrame(s1)
       ELSE IF input.kind = "nopose" THEN requestAnimationFrame(s1)
       ELSE Then(processPose(s1, input.pose, notifOk), requestAnimationFrame)

(***************************************************************************)
(* Persistence and configuration                                           *)
(*                                                                         *)
(* A text is [kind, val]: kind "empty" (""), "garbage" (no JSON), "null"   *)
(* (the JSON literal null) or "object"; val is the object JSON.parse       *)
(* yields, a record of JavaScript values with Undef for an absent key.     *)
(***************************************************************************)
NoObject ==
  [type |-> Undef, cameraAngle |-> Undef, trainingSamples |-> Undef,
   selectedSound |-> Undef, threshScore |-> Undef, alertDelay |-> Undef,
   alertCooldown |-> Undef, sound |-> Undef, notify |-> Undef]

EmptyText == [kind |-> "empty", val |-> NoObject]
GarbageText == [kind |-> "garbage", val |-> NoObject]
NullText == [kind |-> "null", val |-> NoObject]
ObjectText(o) == [kind |-> "object", val |-> o]

\* the object saveState and exportConfig serialise (sliders are strings)
configObject(s, type) ==
  [type |-> type,
   cameraAngle |-> Str(s.cameraAngle),
   trainingSamples |-> s.trainingSamples,
   selectedSound |-> Str(s.selectedSound),
   threshScore |-> Str(s.threshScore),
   alertDelay |-> Str(s.alertDelay),
   alertCooldown |-> Str(s.alertCooldown),
   sound |-> Bool(s.soundEnabled),
   notify |-> Bool(s.notifyEnabled)]

saveState(s) == [s EXCEPT !.persisted = Some(ObjectText(configObject(s, Undef)))]

\* the "change" listeners of the sliders, the check boxes and the sound
\* selector: the control has its new value, then saveState
changeSetting(s, c) ==
  saveState(CASE c.field = "alertCooldown" -> [s EXCEPT !.alertCooldown = c.value]
              [] c.field = "selectedSound" -> [s EXCEPT !.selectedSound = c.value]
              [] OTHER -> [s EXCEPT !.notifyEnabled = ~@])

\* el.value = v on a range input
sliderValue(x, old) ==
  IF x.t = "string" THEN x.v
  ELSE IF x.t = "number" /\ x.v = 5 THEN "5"
  ELSE IF x.t = "number" /\ x.v = 30 THEN "30"
  ELSE old

\* lines 1124-1134: the assignments of applyConfig
applyFields(s, c) ==
  LET s1 == IF Truthy(c.cameraAngle) THEN [s EXCEPT !.cameraAngle = c.cameraAngle.v] ELSE s
      s2 == IF Truthy(c.trainingSamples)
              THEN [s1 EXCEPT !.trainingSamples = c.trainingSamples] ELSE s1
      s3 == IF Truthy(c.selectedSound) /\ c.selectedSound.v \in SOUND_BITES
              THEN [s2 EXCEPT !.selectedSound = c.selectedSound.v] ELSE s2
      s4 == IF Truthy(c.threshScore)
              THEN [s3 EXCEPT !.threshScore = sliderValue(c.threshScore, @)] ELSE s3
      s5 == IF Truthy(c.alertDelay)
              THEN [s4 EXCEPT !.alertDelay = sliderValue(c.alertDelay, @)] ELSE s4
      s6 == IF Truthy(c.alertCooldown)
              THEN [s5 EXCEPT !.alertCooldown = sliderValue(c.alertCooldown, @)] ELSE s5
      s7 == IF c.sound.t # "undefined" THEN [s6 EXCEPT !.soundEnabled = Truthy(c.sound)] ELSE s6
  IN IF c.notify.t # "undefined" THEN [s7 EXCEPT !.notifyEnabled = Truthy(c.notify)] ELSE s7

\* applyConfig(JSON.parse(text)) for a text that parses
applyConfig(s, text) ==
  IF text.kind = "null" THEN Throw(s)       \* s.cameraAngle of null
  ELSE Then(Then(Then(applyFields(s, text.val), retrainModel), updateTrainingUI),
            updateCameraAngleUI)

\* try { ... } catch { }
Caught(s) == [s EXCEPT !.threw = FALSE]

loadSavedState(s) ==
  IF IsNone(s.persisted) \/ Val(s.persisted).kind = "empty" THEN s
  ELSE IF Val(s.persisted).kind = "garbage" THEN s      \* JSON.parse throws, caught
  ELSE Caught(applyConfig(s, Val(s.persisted)))

showConfigStatus(s, msg) == [s EXCEPT !.configStatus = msg]

\* exportConfig that writes the two alert sliders under each other's key
exportConfigSwapped(s, clipOk) ==
  showConfigStatus(
    [s EXCEPT !.configTextarea =
       ObjectText([configObject(s, Str(CONFIG_TYPE))
                     EXCEPT !.alertDelay = Str(s.alertCooldown),
                            !.alertCooldown = Str(s.alertDelay)])],
    IF clipOk THEN "copied" ELSE "exported")

\* clipOk: navigator.clipboard.writeText resolves
exportConfig(s, clipOk) ==
  showConfigStatus(
    [s EXCEPT !.configTextarea = ObjectText(configObject(s, Str(CONFIG_TYPE)))],
    IF clipOk THEN "copied" ELSE "exported")

importDone(s) == showConfigStatus([saveState(s) EXCEPT !.configTextarea = EmptyText],
                                  "imported")

\* importConfig without the test of _type
importConfigAnyTag(s, text) ==
  IF text.kind = "empty" THEN showConfigStatus(s, "paste-first")
  ELSE IF text.kind = "garbage" THEN showConfigStatus(s, "invalid-json")
  ELSE IF text.kind = "null" THEN showConfigStatus(s, "invalid-json")
  ELSE LET r == Then(applyConfig(s, text), importDone)
       IN IF r.threw THEN showConfigStatus(Caught(r), "invalid-json") ELSE r

\* text: configTextarea.value when the button is clicked
importConfig(s, text) ==
  IF text.kind = "empty" THEN showConfigStatus(s, "paste-first")
  ELSE IF text.kind = "garbage" THEN showConfigStatus(s, "invalid-json")
  ELSE IF text.kind = "null" THEN showConfigStatus(s, "invalid-json")
  ELSE IF ~(text.val.type.t = "string" /\ text.val.type.v = CONFIG_TYPE)
    THEN showConfigStatus(s, "invalid-format")
  ELSE LET r == Then(applyConfig(s, text), importDone)
       IN IF r.threw THEN showConfigStatus(Caught(r), "invalid-json") ELSE r

(***************************************************************************)
(* Training                                                                *)
(***************************************************************************)
pushSample(s, label) ==
  IF s.trainingSamples.t # "array" THEN Throw(s)      \* .push is not a function
  ELSE [s EXCEPT !.trainingSamples =
          Arr(Append(@.v, [label |-> label, angle |-> s.cameraAngle,
                           features |-> Val(s.currentFeatures),
                           timestamp |-> DateNow(s)])),
                 !.captures = @ + 1]

captureSample(s, label) ==
  IF IsNone(s.currentFeatures) THEN s
  ELSE Then(Then(Then(pushSample(s, label), retrainModel), updateTrainingUI), saveState)

popSample(s) ==
  IF s.trainingSamples.t # "array" THEN Throw(s)      \* .pop is not a function
  ELSE [s EXCEPT !.trainingSamples = Arr(SubSeq(@.v, 1, Len(@.v) - 1))]

\* undoLastSample that does not retrain
undoLastSampleNoRetrain(s) ==
  IF s.trainingSamples.t = "array" /\ Len(s.trainingSamples.v) = 0 THEN s
  ELSE Then(Then(popSample(s), updateTrainingUI), saveState)

undoLastSample(s) ==
  IF s.trainingSamples.t = "array" /\ Len(s.trainingSamples.v) = 0 THEN s
  ELSE Then(Then(Then(popSample(s), retrainModel), updateTrainingUI), saveState)

\* clearAllSamples that drops only the samples of the active viewpoint
clearAllSamplesActiveOnly(s, confirmed) ==
  IF ~confirmed THEN s
  ELSE Then(updateTrainingUI(
              [s EXCEPT !.trainingSamples =
                          Arr(SelectSeq(@.v, LAMBDA x : x.angle # s.cameraAngle)),
                        !.trainedModel = None]),
            saveState)

clearAllSamples(s, confirmed) ==
  IF ~confirmed THEN s
  ELSE Then(updateTrainingUI([s EXCEPT !.trainingSamples = Arr(<<>>),
                                       !.trainedModel = None]),
            saveState)

\* the click handler of a camera angle button
selectAngle(s, angle) ==
  Then(updateCameraAngleUI([s EXCEPT !.cameraAngle = angle]), saveState)

(***************************************************************************)
(* WebSocket and timers                                                    *)
(***************************************************************************)
connectWebSocket(s) == [s EXCEPT !.ws = "CONNECTING"]

\* ws.onclose that starts no timer
oncloseNoReconnect(s) == [s EXCEPT !.ws = "CLOSED"]

\* ws.onclose
onclose(s) ==
  [s EXCEPT !.ws = "CLOSED", !.reconnectTimers = Append(@, s.clock + RECONNECT_DELAY)]

\* ws.onerror that starts a reconnect timer as onclose does
onerrorReconnects(s) ==
  [s EXCEPT !.reconnectTimers = Append(@, s.clock + RECONNECT_DELAY)]

\* ws.onerror
onerror(s) == s

\* the callback of setInterval in startTitleFlash
flashTick(s) ==
  [s EXCEPT !.title = IF s.on THEN TITLE_ALERT ELSE TITLE_DEFAULT, !.on = ~s.on]

Deadlines == {hideTimers[i] : i \in DOMAIN hideTimers}
               \cup {reconnectTimers[i] : i \in DOMAIN reconnectTimers}

\* an event may run at time t: no pending timer is due before t
MayRunAt(t) == \A d \in Deadlines : t <= d

(***************************************************************************)
(* Initialisation                                                          *)
(***************************************************************************)
\* init() up to its first await
initSync(s) ==
  LET r == Then(Then(loadSavedState(connectWebSocket(s)), updateCameraAngleUI),
                updateMetricLabels)
  IN IF r.threw THEN [Caught(r) EXCEPT !.phase = "failed"]
     ELSE [r EXCEPT !.phase = "loading"]

\* init() after its last await
initRun(s, input, notifOk) ==
  LET s1 == updateStatus([s EXCEPT !.running = TRUE])
      r == IF s1.threw THEN s1 ELSE detect(s1, input, notifOk)
  IN IF r.threw THEN [Caught(r) EXCEPT !.phase = "failed"]
     ELSE [r EXCEPT !.phase = "running"]

(***************************************************************************)
(* Inputs                                                                  *)
(***************************************************************************)
Smp(label, angle, features, ts) ==
  [label |-> label, angle |-> angle, features |-> features, timestamp |-> ts]

Earlier == TimeOrigin - 1000

GoodFront == Smp("good", "front", extractFeatures("front", Upright), Earlier)
BadFront == Smp("bad", "front", extractFeatures("front", Slouched), Earlier)
GoodSide == Smp("good", "side-left", extractFeatures("side-left", Upright), Earlier)
BadSide == Smp("bad", "side-left", extractFeatures("side-left", Slouched), Earlier)

\* one sample short of a model for "front"
AlmostFront == << GoodFront, GoodFront, GoodFront, BadFront, BadFront >>
TrainedFront == AlmostFront \o << BadFront >>
\* a model for "front", none for "side-left"
FrontAndSide == << GoodSide, BadSide >> \o TrainedFront

Saved(angle, samples, delay, cooldown, notify) ==
  [type |-> Undef, cameraAngle |-> angle, trainingSamples |-> samples,
   selectedSound |-> Str("chime"), threshScore |-> Str("0.5"),
   alertDelay |-> Str(delay), alertCooldown |-> Str(cooldown),
   sound |-> Bool(TRUE), notify |-> Bool(notify)]

Tagged(o) == [o EXCEPT !.type = Str(CONFIG_TYPE)]

\* what localStorage may hold when the page loads
StoredTexts ==
  { None,
    Some(ObjectText(Saved(Str("front"), Arr(AlmostFront), "5", "30", TRUE))),
    Some(ObjectText(Saved(Str("side-left"), Arr(FrontAndSide), "5", "30", TRUE))) }

\* the same, with texts no saveState has written
StoredTextsAny ==
  StoredTexts \cup
    { Some(GarbageText),
      Some(ObjectText(Saved(Str("top"), Arr(TrainedFront), "5", "30", TRUE))) }

\* a trained store with the alert settings of a short session
StoredTextsAlert ==
  { Some(ObjectText(Saved(Str("front"), Arr(FrontAndSide), "0", "2", TRUE))),
    Some(ObjectText(Saved(Str("front"), Arr(FrontAndSide), "2", "0", TRUE))),
    Some(ObjectText(Saved(Str("front"), Arr(FrontAndSide), "0", "0", FALSE))) }

\* a trained store whose every bad frame after the first fires
StoredTextsNotify ==
  { Some(ObjectText(Saved(Str("front"), Arr(TrainedFront), "0", "0", TRUE))),
    Some(ObjectText(Saved(Str("front"), Arr(TrainedFront), "0", "0", FALSE))) }

\* samples a user labels against the pose: good while slouched, bad while
\* upright
GoodSlouched == Smp("good", "front", extractFeatures("front", Slouched), Earlier)
BadUpright == Smp("bad", "front", extractFeatures("front", Upright), Earlier)

\* both classes captured at the same pose: the two centroids coincide
CoincidentFront == << GoodFront, GoodFront, GoodFront, BadUpright, BadUpright, BadUpright >>
\* a good centroid between the poses (a third of the way)
MixedFront == << GoodFront, GoodFront, GoodSlouched, BadFront, BadFront, BadFront >>

StoredTextsScore ==
  { Some(ObjectText(Saved(Str("front"), Arr(TrainedFront), "5", "30", TRUE))),
    Some(ObjectText(Saved(Str("front"), Arr(CoincidentFront), "5", "30", TRUE))),
    Some(ObjectText(Saved(Str("front"), Arr(MixedFront), "5", "30", TRUE))) }

\* a store with samples of two viewpoints, saved under "side-left"
StoredTextsPersist ==
  { Some(ObjectText(Saved(Str("side-left"), Arr(FrontAndSide), "5", "30", TRUE))) }

StoredTextsLong ==
  { Some(ObjectText(Saved(Str("front"), Arr(TrainedFront), "5", "30", TRUE))) }

\* a trained configuration with a slider at 0 and a toggle off
GoodConfig == ObjectText(Tagged(Saved(Str("front"), Arr(TrainedFront), "5", "0", FALSE)))
TopConfig == ObjectText(Tagged(Saved(Str("top"), Arr(<<>>), "5", "30", FALSE)))

\* what the user may put into the config text box
PastedTexts ==
  { EmptyText, GarbageText, NullText, GoodConfig, TopConfig,
    ObjectText(Saved(Str("side-left"), Arr(TrainedFront), "5", "30", FALSE)),
    ObjectText([Saved(Str("side-left"), Arr(TrainedFront), "5", "30", FALSE)
                  EXCEPT !.type = Str("Other Config")]),
    ObjectText(Tagged(Saved(Str("side-left"), Num(5), "5", "30", FALSE))),
    ObjectText(Tagged([NoObject EXCEPT !.cameraAngle = Str("side-left")])) }

ClickAngles == {"front", "side-left"}

(***************************************************************************)
(* State after the module's top-level declarations                         *)
(***************************************************************************)
\* (the sliders and check boxes start as index.html sets them: 0.5, 5 s, 30 s,
\* sound and notifications on)
InitPage(stored, perms) ==
  /\ phase = "boot"
  /\ running = FALSE
  /\ clock = 0
  /\ lastFrameTime = -1
  /\ rafPending = 0
  /\ cameraAngle = "front"
  /\ currentFeatures = None
  /\ smoothedFeatures = None
  /\ trainingSamples = Arr(<<>>)
  /\ trainedModel = None
  /\ badPostureSince = None
  /\ lastAlertTime = 0
  /\ selectedSound = "chime"
  /\ notifPermission \in perms
  /\ titleFlashInterval = None
  /\ activeIntervals = 0
  /\ on = TRUE
  /\ title = TITLE_DEFAULT
  /\ overlayHidden = TRUE
  /\ ws = "none"
  /\ hideTimers = <<>>
  /\ reconnectTimers = <<>>
  /\ threshScore = "0.5"
  /\ alertDelay = "5"
  /\ alertCooldown = "30"
  /\ soundEnabled = TRUE
  /\ notifyEnabled = TRUE
  /\ persisted \in stored
  /\ configTextarea = EmptyText
  /\ configStatus = "none"
  /\ captures = 0
  /\ emitted = Quiet
  /\ threw = FALSE

InitWith(stored, perms) ==
  /\ InitPage(stored, perms)
  /\ landmarks = Seen([norm |-> StraightNorm, world |-> StraightWorld],
                      [i \in Keypoints |-> 50])
  /\ measured = None

(***************************************************************************)
(* Actions: one per event handler                                          *)
(***************************************************************************)
Boot ==
  /\ phase = "boot"
  /\ Becomes(initSync(Cur))

Ready ==
  /\ phase = "loading"
  /\ \E input \in FrameInputs, notifOk \in BOOLEAN :
       Becomes(initRun(Cur, input, notifOk))

\* an await of init() rejects (no camera, no model file)
InitFail ==
  /\ phase = "loading"
  /\ Becomes([Cur EXCEPT !.phase = "failed"])

\* a requestAnimationFrame callback, dt ms after the previous event
FrameUpTo(limit) ==
  /\ rafPending > 0
  /\ \E dt \in {0, TickStep}, input \in FrameInputs, notifOk \in BOOLEAN :
       /\ clock + dt <= limit
       /\ MayRunAt(clock + dt)
       /\ Becomes(detect([Cur EXCEPT !.clock = clock + dt,
                                                   !.rafPending = @ - 1],
                         input, notifOk))

Frame == FrameUpTo(MaxClock)

\* the next rendering tick, one TickStep later, on which the estimator detects
\* a slouched pose
SlouchedFrameUpTo(limit) ==
  /\ rafPending > 0
  /\ clock + TickStep <= limit
  /\ MayRunAt(clock + TickStep)
  /\ \E notifOk \in BOOLEAN :
       Becomes(detect([Cur EXCEPT !.clock = clock + TickStep,
                                  !.rafPending = @ - 1],
                      [kind |-> "pose", pose |-> Slouched], notifOk))

Capture ==
  /\ phase # "boot"
  /\ captures < MaxCaptures
  /\ \E label \in {"good", "bad"} : Becomes(captureSample(Cur, label))

Undo ==
  /\ phase # "boot"
  /\ Becomes(undoLastSample(Cur))

Clear ==
  /\ phase # "boot"
  /\ \E confirmed \in BOOLEAN : Becomes(clearAllSamples(Cur, confirmed))

SelectAngle ==
  /\ phase # "boot"
  /\ \E angle \in ClickAngles : Becomes(selectAngle(Cur, angle))

\* the import button, clicked with the text the program or the user has put
\* into the config text box
ImportFrom(texts) ==
  /\ phase # "boot"
  /\ \E text \in texts \cup {configTextarea} : Becomes(importConfig(Cur, text))

Import == ImportFrom(PastedTexts)

Export ==
  /\ phase # "boot"
  /\ \E clipOk \in BOOLEAN : Becomes(exportConfig(Cur, clipOk))

HideTimer ==
  /\ hideTimers # <<>>
  /\ MayRunAt(Head(hideTimers))
  /\ Becomes(hideAlert([Cur EXCEPT !.clock = Head(hideTimers),
                                                   !.hideTimers = Tail(@)]))

\* a hide timer that is due before the next rendering tick runs; clock stays
\* the time of the last tick (hideAlert does not read the time)
HideTimerBeforeTick ==
  /\ hideTimers # <<>>
  /\ Head(hideTimers) < clock + TickStep
  /\ Becomes(hideAlert([Cur EXCEPT !.hideTimers = Tail(@)]))

\* what the user may set on the controls
SettingChanges ==
  { [field |-> "alertCooldown", value |-> "0"],
    [field |-> "notify", value |-> ""] }

SettingsChange ==
  /\ phase # "boot"
  /\ \E c \in SettingChanges : Becomes(changeSetting(Cur, c))

FlashTick ==
  /\ activeIntervals > 0
  /\ Becomes(flashTick(Cur))

\* the socket opens
WsOpen ==
  /\ ws = "CONNECTING"
  /\ Becomes([Cur EXCEPT !.ws = "OPEN"])

\* the socket closes (the server goes away, or the connection fails)
WsCloseUpTo(limit) ==
  /\ ws \in {"CONNECTING", "OPEN"}
  /\ clock <= limit
  /\ Becomes(onclose(Cur))

\* the socket reports an error; its close follows as a separate event
WsErrorUpTo(limit) ==
  /\ ws \in {"CONNECTING", "OPEN"}
  /\ clock <= limit
  /\ Becomes(onerror(Cur))

Reconnect ==
  /\ reconnectTimers # <<>>
  /\ MayRunAt(Head(reconnectTimers))
  /\ Becomes(connectWebSocket([Cur EXCEPT !.clock = Head(reconnectTimers),
                                          !.reconnectTimers = Tail(@)]))

\* the user answers the permission prompt of requestNotificationPermission
PermissionAnswer ==
  /\ phase # "boot"
  /\ notifPermission = "default"
  /\ \E perm \in {"granted", "denied"} : Becomes([Cur EXCEPT !.notifPermission = perm])

(***************************************************************************)
(* Specifications                                                          *)
(***************************************************************************)
\* training: the store, the model and the viewpoint
Init == InitWith(StoredTexts, {"default"})

Next ==
  \/ Boot
  \/ Ready
  \/ Frame
  \/ Capture
  \/ Undo
  \/ Clear
  \/ SelectAngle
  \/ ImportFrom({GoodConfig, TopConfig})

Spec == Init /\ [][Next]_vars

\* configuration: import and load
InitConfig == InitWith(StoredTextsAny, {"default"})

NextConfig ==
  \/ Boot
  \/ Ready
  \/ InitFail
  \/ FrameUpTo(MaxClockConfig)
  \/ SelectAngle
  \/ Import
  \/ Export

SpecConfig == InitConfig /\ [][NextConfig]_vars

\* alerts: a trained session
InitAlert == InitWith(StoredTextsAlert, {"granted", "denied"})

NextAlert ==
  \/ Boot
  \/ Ready
  \/ FrameUpTo(MaxClockAlert)
  \/ HideTimer
  \/ FlashTick
  \/ SelectAngle
  \/ WsOpen

SpecAlert == InitAlert /\ [][NextAlert]_vars

\* alerts over a long session with delay 5 s and cooldown 30 s
InitLong == InitWith(StoredTextsLong, {"denied"})

NextLong ==
  \/ Boot
  \/ Ready
  \/ FrameUpTo(MaxClockLong)
  \/ HideTimer
  \/ FlashTick

SpecLong == InitLong /\ [][NextLong]_vars

\* notification channels: the permission and the relay socket change
InitNotify == InitWith(StoredTextsNotify, {"default", "granted"})

NextNotify ==
  \/ Boot
  \/ Ready
  \/ FrameUpTo(MaxClockNotify)
  \/ HideTimer
  \/ WsOpen
  \/ WsCloseUpTo(MaxClockNotify)
  \/ WsErrorUpTo(MaxClockNotify)
  \/ Reconnect
  \/ PermissionAnswer

SpecNotify == InitNotify /\ [][NextNotify]_vars

\* Sessions about the score: a trained store is loaded and frames are
\* classified
InitScore == InitWith(StoredTextsScore, {"default"})

NextScore ==
  \/ Boot
  \/ Ready
  \/ FrameUpTo(MaxClockScore)

SpecScore == InitScore /\ [][NextScore]_vars

\* one long bad episode: every tick brings a slouched pose, ticks come every
\* TickStep and pending timers run when due
InitEpisode == InitWith(StoredTextsAlert, {"granted", "denied"})

NextEpisode ==
  \/ Boot
  \/ Ready
  \/ SlouchedFrameUpTo(MaxClockEpisode)
  \/ HideTimerBeforeTick

\* SlouchedFrameUpTo(MaxClockEpisode), HideTimerBeforeTick can run
TickDue ==
  /\ rafPending > 0
  /\ clock + TickStep <= MaxClockEpisode
  /\ MayRunAt(clock + TickStep)
TimerDue == hideTimers # <<>> /\ Head(hideTimers) < clock + TickStep

\* weak fairness of the tick and of the timer, with their enabling conditions
\* written out
SpecEpisode ==
  /\ InitEpisode
  /\ [][NextEpisode]_vars
  /\ ([]<>(~TickDue) \/ []<><<SlouchedFrameUpTo(MaxClockEpisode)>>_vars)
  /\ ([]<>(~TimerDue) \/ []<><<HideTimerBeforeTick>>_vars)

\* persistence: every handler that saves, and the failing import
InitPersist == InitWith(StoredTextsPersist, {"default"})

NextPersist ==
  \/ Boot
  \/ Ready
  \/ FrameUpTo(MaxClockPersist)
  \/ Capture
  \/ Undo
  \/ Clear
  \/ SelectAngle
  \/ ImportFrom({GoodConfig, TopConfig})
  \/ SettingsChange

SpecPersist == InitPersist /\ [][NextPersist]_vars

\* a bad episode across captures, undo, clear, viewpoint switches and imports
StoredTextsSurvive ==
  { Some(ObjectText(Saved(Str("front"), Arr(FrontAndSide), "2", "0", FALSE))) }

InitSurvive == InitWith(StoredTextsSurvive, {"denied"})

\* a frame on which the estimator raises an error or detects no pose
BlindFrameUpTo(limit) ==
  /\ rafPending > 0
  /\ \E dt \in {0, TickStep}, input \in {i \in FrameInputs : i.kind # "pose"} :
       /\ clock + dt <= limit
       /\ MayRunAt(clock + dt)
       /\ Becomes(detect([Cur EXCEPT !.clock = clock + dt,
                                                   !.rafPending = @ - 1],
                         input, TRUE))

NextSurvive ==
  \/ Boot
  \/ Ready
  \/ FrameUpTo(MaxClockSurvive)
  \/ Capture
  \/ Undo
  \/ Clear
  \/ SelectAngle
  \/ ImportFrom({GoodConfig, TopConfig})
  \/ HideTimer

SpecSurvive == InitSurvive /\ [][NextSurvive]_vars

\* the metric functions on one frame's keypoints
InitMetrics ==
  /\ InitPage({None}, {"default"})
  /\ landmarks \in LandmarkInputs
  /\ measured = None

\* extractFeatures calling FEATURE_FNS[m.fn](norm, world)
Measure ==
  /\ \E fn \in FeatureFns :
       measured' = Some([fn |-> fn,
                         value |-> FEATURE_FNS(fn, landmarks.norm, landmarks.world)])
  /\ UNCHANGED <<pageVars, landmarks>>

NextMetrics == Measure

SpecMetrics == InitMetrics /\ [][NextMetrics]_vars

(***************************************************************************)
(* Properties                                                              *)
(***************************************************************************)
Now == TimeOrigin + clock
Delay == parseInt(alertDelay) * 1000
Cooldown == parseInt(alertCooldown) * 1000

\* samples of the store with this label and the active viewpoint
CountFor(label) ==
  IF trainingSamples.t = "array"
    THEN Len(SamplesFor(trainingSamples.v, label, cameraAngle))
    ELSE 0

EnoughSamples == CountFor("good") >= MIN_SAMPLES /\ CountFor("bad") >= MIN_SAMPLES

\* C1: a centroid model exists if and only if the store holds at least 3 good
\* and at least 3 bad samples tagged with the active viewpoint
C1_ModelIffEnoughSamples == (~IsNone(trainedModel)) <=> EnoughSamples

\* C2: a fire happens only on a frame classified bad, with badSince set by an
\* earlier frame and left unchanged, delay elapsed since badSince and cooldown
\* elapsed since lastFired; it sets lastFired to now, and lastFired changes on
\* no other step (so two consecutive fires are at least cooldown apart)
C2_FireOnlyAfterDelayAndCooldown ==
  [][ /\ emitted'.fire =>
           /\ emitted'.isGood = "bad"
           /\ ~IsNone(badPostureSince)
           /\ badPostureSince' = badPostureSince
           /\ Now' - Val(badPostureSince) >= Delay
           /\ Now' - lastAlertTime >= Cooldown
           /\ lastAlertTime' = Now'
      /\ lastAlertTime' # lastAlertTime => emitted'.fire ]_vars

\* a fire on the second bad frame of an episode with delay 0, and one that had
\* to wait for the cooldown
C2_Witness ==
  /\ emitted.fire
  /\ alertDelay = "0"
  /\ alertCooldown = "2"
  /\ ~IsNone(badPostureSince)
  /\ Now - Val(badPostureSince) >= 3000

\* C3: with delay 5 s and cooldown 30 s, in an episode that started at
\* badSince, no fire happens before badSince + 5 s, the first classified
\* frame at or after badSince + 5 s fires (no fire has happened before in the
\* session), and a second fire of the episode is not before badSince + 35 s
C3_FirstFireAt5sSecondNotBefore35s ==
  [][ (alertDelay = "5" /\ alertCooldown = "30") =>
        /\ emitted'.fire =>
             ~IsNone(badPostureSince) /\ Now' >= Val(badPostureSince) + 5000
        /\ ( /\ emitted'.isGood = "bad"
             /\ ~IsNone(badPostureSince)
             /\ lastAlertTime = 0
             /\ Now' >= Val(badPostureSince) + 5000 ) => emitted'.fire
        /\ ( /\ emitted'.fire
             /\ ~IsNone(badPostureSince)
             /\ lastAlertTime >= Val(badPostureSince) )
             => Now' >= Val(badPostureSince) + 35000 ]_vars

\* the second fire of an episode, 35 s after its start
C3_Witness ==
  /\ emitted.fire
  /\ alertDelay = "5"
  /\ alertCooldown = "30"
  /\ ~IsNone(badPostureSince)
  /\ Now = Val(badPostureSince) + 35000

\* C4: directly after a frame classified good, badSince is cleared, a clear
\* was emitted, the overlay is hidden, no title interval is active and the
\* title is the default string
C4_GoodFrameClears ==
  emitted.isGood = "good" =>
    /\ IsNone(badPostureSince)
    /\ emitted.clear
    /\ overlayHidden
    /\ IsNone(titleFlashInterval)
    /\ activeIntervals = 0
    /\ title = TITLE_DEFAULT

\* a good frame one frame after a fire, whose overlay timer is still pending
C4_Witness ==
  /\ emitted.isGood = "good"
  /\ hideTimers # <<>>
  /\ lastAlertTime + TickStep = Now

\* C5: a frame is reported unknown exactly when it is classified without a
\* model, and it changes nothing of the alert machine: badSince, lastFired,
\* overlay, title flash and timers stay, and neither fire nor clear is emitted
C5_UnknownIsPassThrough ==
  [][ /\ emitted'.isGood = "unknown" =>
           /\ IsNone(trainedModel)
           /\ badPostureSince' = badPostureSince
           /\ lastAlertTime' = lastAlertTime
           /\ overlayHidden' = overlayHidden
           /\ titleFlashInterval' = titleFlashInterval
           /\ activeIntervals' = activeIntervals
           /\ title' = title
           /\ hideTimers' = hideTimers
           /\ ~emitted'.fire
           /\ ~emitted'.clear
      /\ (emitted'.isGood \in {"good", "bad"}) => ~IsNone(trainedModel) ]_vars

\* an unknown frame in the middle of an episode whose alert is showing
C5_Witness ==
  /\ emitted.isGood = "unknown"
  /\ ~IsNone(badPostureSince)
  /\ ~overlayHidden
  /\ ~IsNone(titleFlashInterval)

\* C6: once started, the title flash is stopped by nothing but a clear event
\* (a frame classified good)
C6_FlashStoppedOnlyByClear ==
  [][ (~IsNone(titleFlashInterval) /\ IsNone(titleFlashInterval'))
        => emitted'.clear ]_vars

\* C7: no fire uses both notification channels, and with notifications
\* disabled a fire uses neither
C7_NeverBothChannels ==
  emitted.fire =>
    /\ emitted.browser + emitted.relay <= 1
    /\ ~notifyEnabled => (emitted.browser = 0 /\ emitted.relay = 0)

\* a fire that used one channel, and a fire with notifications disabled
C7_Witness ==
  /\ emitted.fire
  /\ notifyEnabled
  /\ emitted.browser + emitted.relay = 1

\* C8 as stated: with notifications enabled every fire uses exactly one channel
C8_ExactlyOneChannel ==
  (emitted.fire /\ notifyEnabled) => emitted.browser + emitted.relay = 1

\* C8 as amended: with notifications enabled and permission granted, a fire
\* tries the in-session notification only (one notification unless its
\* constructor throws, no relay message); with permission not granted it sends
\* exactly one relay message when the relay socket is OPEN and nothing
\* otherwise
C8_OneChannelWhenAvailable ==
  (emitted.fire /\ notifyEnabled) =>
    IF notifPermission = "granted"
      THEN emitted.relay = 0 /\ emitted.browser <= 1
      ELSE emitted.browser = 0 /\ emitted.relay = (IF ws = "OPEN" THEN 1 ELSE 0)

\* a fire with permission not granted while the socket is closed
C8_Witness ==
  /\ emitted.fire
  /\ notifyEnabled
  /\ notifPermission # "granted"
  /\ ws = "CLOSED"
  /\ emitted.relay = 0

\* texts that parse to an object whose _type is wrong or missing
WrongTagTexts ==
  {x \in PastedTexts :
     x.kind = "object" /\ ~(x.val.type.t = "string" /\ x.val.type.v = CONFIG_TYPE)}

ConfigUnchanged ==
  /\ cameraAngle' = cameraAngle
  /\ trainingSamples' = trainingSamples
  /\ trainedModel' = trainedModel
  /\ selectedSound' = selectedSound
  /\ threshScore' = threshScore
  /\ alertDelay' = alertDelay
  /\ alertCooldown' = alertCooldown
  /\ soundEnabled' = soundEnabled
  /\ notifyEnabled' = notifyEnabled

\* C9: an import of a payload whose _type is wrong or missing changes nothing
\* of the configuration, the model, the smoothed vector or the persisted state
\* and reports the failure
C9_WrongTagImportChangesNothing ==
  [][ (\E text \in WrongTagTexts : Becomes(importConfig(Cur, text))) =>
        /\ ConfigUnchanged
        /\ smoothedFeatures' = smoothedFeatures
        /\ currentFeatures' = currentFeatures
        /\ persisted' = persisted
        /\ configStatus' = "invalid-format" ]_vars

\* a rejected import in a session that has a model and a smoothed vector
C9_Witness ==
  /\ configStatus = "invalid-format"
  /\ ~IsNone(trainedModel)
  /\ ~IsNone(smoothedFeatures)

FailureStatus == {"paste-first", "invalid-json", "invalid-format"}

\* C10: whenever importConfig reports failure, no field has been applied
C10_FailedImportAppliesNothing ==
  [][ (Import /\ configStatus' \in FailureStatus) => ConfigUnchanged ]_vars

\* the persisted text is corrupted: no JSON, or an object whose cameraAngle
\* names no profile or whose trainingSamples is no list
CorruptStored ==
  /\ ~IsNone(persisted)
  /\ \/ Val(persisted).kind \in {"garbage", "null"}
     \/ /\ Val(persisted).kind = "object"
        /\ \/ /\ Truthy(Val(persisted).val.cameraAngle)
              /\ ~HasProfile(Val(persisted).val.cameraAngle.v)
           \/ /\ Truthy(Val(persisted).val.trainingSamples)
              /\ Val(persisted).val.trainingSamples.t # "array"

\* C11: when the persisted state is corrupted, the synchronous start of init
\* applies no persisted field (viewpoint, store, model and settings keep their
\* defaults) and init goes on to load the pose model
C11_CorruptLoadKeepsDefaults ==
  [][ (phase = "boot" /\ CorruptStored) =>
        /\ ConfigUnchanged
        /\ phase' = "loading" ]_vars

\* the state the next handler starts from, once the handler that left s is over
After(s) == [s EXCEPT !.emitted = Quiet, !.threw = FALSE]

\* capture of a sample with this label, immediately followed by undo
CaptureThenUndo(label) == undoLastSample(After(captureSample(Cur, label)))

SameClassifier(s) ==
  /\ s.trainingSamples = trainingSamples
  /\ s.trainedModel = trainedModel

\* C12 as stated: in every state in which capture can be invoked, a capture
\* immediately followed by an undo leaves the sample list and the model as
\* they were
C12_CaptureUndoIsIdentity ==
  phase # "boot" => \A label \in {"good", "bad"} : SameClassifier(CaptureThenUndo(label))

\* C12 as amended: the same, in the states in which a feature vector exists,
\* that is where the capture appends a sample
C12_CaptureUndoIsIdentityWithFeatures ==
  (phase # "boot" /\ ~IsNone(currentFeatures)) =>
    \A label \in {"good", "bad"} : SameClassifier(CaptureThenUndo(label))

\* a state without a model in which the capture of a bad sample creates one
C12_Witness ==
  /\ phase # "boot"
  /\ ~IsNone(currentFeatures)
  /\ IsNone(trainedModel)
  /\ ~IsNone(captureSample(Cur, "bad").trainedModel)

\* C13: a capture appends one sample tagged with the active viewpoint that
\* carries the smoothed vector of that viewpoint, and appends nothing while
\* no such vector exists (before the first processed frame, and between a
\* viewpoint switch and the next processed frame)
C13_CaptureUsesActiveViewpointVector ==
  (phase # "boot" /\ trainingSamples.t = "array") =>
    \A label \in {"good", "bad"} :
      captureSample(Cur, label).trainingSamples =
        IF IsNone(smoothedFeatures)
          THEN trainingSamples
          ELSE Arr(Append(trainingSamples.v,
                          [label |-> label, angle |-> cameraAngle,
                           features |-> Val(smoothedFeatures),
                           timestamp |-> Now]))

\* the model of a store for a viewpoint: none below the minimum of a class,
\* else the per-dimension means of the samples of that viewpoint
ModelOf(samples, angle) ==
  LET good == SamplesFor(samples, "good", angle)
      bad == SamplesFor(samples, "bad", angle)
      n == Len(ANGLE_PROFILES[angle])
  IN IF Len(good) >= MIN_SAMPLES /\ Len(bad) >= MIN_SAMPLES
       THEN Some([goodCentroid |-> [i \in 1..n |-> << SumDim(good, i), Len(good) >>],
                  badCentroid |-> [i \in 1..n |-> << SumDim(bad, i), Len(bad) >>]])
       ELSE None

C15_ViewpointChangeResetsSmoothed ==
  [][ cameraAngle' # cameraAngle => IsNone(smoothedFeatures') ]_vars

\* the state a frame would blend in: the viewpoint is one with a profile, the
\* status line reports a failed import, and the smoothed vector is still the
\* one accumulated under "front"
C15_StaleSmoothed ==
  /\ cameraAngle = "side-left"
  /\ configStatus \in FailureStatus
  /\ ~IsNone(smoothedFeatures)

\* the fields of the configuration are what they were
SameSettings ==
  /\ cameraAngle' = cameraAngle
  /\ trainingSamples' = trainingSamples
  /\ selectedSound' = selectedSound
  /\ threshScore' = threshScore
  /\ alertDelay' = alertDelay
  /\ alertCooldown' = alertCooldown
  /\ soundEnabled' = soundEnabled
  /\ notifyEnabled' = notifyEnabled

\* C16: importing the text exportConfig writes for the current state, into that
\* same state, leaves cameraAngle, trainingSamples, the selected sound, the
\* three sliders and the two toggles as they are, also with a toggle off or a
\* slider at 0
C16_ExportImportRoundTrip ==
  [][ \A clipOk \in BOOLEAN :
        LET exported == exportConfig(Cur, clipOk).configTextarea
        IN (phase # "boot" /\ Becomes(importConfig(Cur, exported))) => SameSettings ]_vars

\* the text box holds the export of the current state, which has samples, a
\* slider at 0 and a toggle off, and the import of that text succeeds
C16_Witness ==
  /\ phase # "boot"
  /\ configTextarea = ObjectText(configObject(Cur, Str(CONFIG_TYPE)))
  /\ configStatus \in {"copied", "exported"}
  /\ alertCooldown = "0"
  /\ ~notifyEnabled
  /\ trainingSamples.t = "array" /\ trainingSamples.v # <<>>
  /\ importConfig(Cur, configTextarea).configStatus = "imported"

\* C17: whenever a model exists, its two centroids are, per dimension, the
\* arithmetic means over exactly the stored samples of that label tagged with
\* the active viewpoint
C17_CentroidsAreMeans ==
  ~IsNone(trainedModel) =>
    /\ HasProfile(cameraAngle)
    /\ trainingSamples.t = "array"
    /\ trainedModel = ModelOf(trainingSamples.v, cameraAngle)

\* a model whose centroids are means of samples the store no longer holds
C17_StaleModel ==
  /\ ~IsNone(trainedModel)
  /\ trainingSamples = Arr(<<>>)

\* scoring a centroid c = sums / n: the vector of the sums against the model
\* with both centroids taken n times, which multiplies both distances by n and
\* leaves their quotient and their being zero as they are
Sums(c) == [i \in DOMAIN c |-> c[i][1]]
Times(c, n) == [i \in DOMAIN c |-> << c[i][1] * n, c[i][2] >>]
ScoreOfCentroid(c, model) ==
  Val(classifyPosture(Sums(c),
                      Some([goodCentroid |-> Times(model.goodCentroid, c[1][2]),
                            badCentroid |-> Times(model.badCentroid, c[1][2])])))

\* distBad / (distGood + distBad) is 1, is 0
ScoreIsOne(score) == ~score.half /\ score.g[1] = 0 /\ score.b[1] > 0
ScoreIsZero(score) == ~score.half /\ score.b[1] = 0 /\ score.g[1] > 0

\* the two centroids are the same point
Coincide(model) ==
  \A i \in DOMAIN model.goodCentroid :
    model.goodCentroid[i][1] * model.badCentroid[i][2]
      = model.badCentroid[i][1] * model.goodCentroid[i][2]

\* v is the point c
IsAt(v, c) == \A i \in DOMAIN c : v[i] * c[i][2] = c[i][1]

\* C18 as stated: for every model, the good centroid scores exactly 1 and the
\* bad centroid exactly 0
C18_CentroidsScoreOneAndZero ==
  ~IsNone(trainedModel) =>
    /\ ScoreIsOne(ScoreOfCentroid(Val(trainedModel).goodCentroid, Val(trainedModel)))
    /\ ScoreIsZero(ScoreOfCentroid(Val(trainedModel).badCentroid, Val(trainedModel)))

\* C18, amended: for every model whose centroids are at least 1e-4 apart (on
\* this grid: are distinct points), the good centroid scores exactly 1 and the
\* bad centroid exactly 0; when they coincide both score the fallback 0.5
C18_DistinctCentroidsScoreOneAndZero ==
  ~IsNone(trainedModel) =>
    LET model == Val(trainedModel)
        ofGood == ScoreOfCentroid(model.goodCentroid, model)
        ofBad == ScoreOfCentroid(model.badCentroid, model)
    IN IF Coincide(model) THEN ofGood.half /\ ofBad.half
       ELSE ScoreIsOne(ofGood) /\ ScoreIsZero(ofBad)

\* a frame whose smoothed vector is the good centroid of a model with distinct
\* centroids has been classified, with score 1
C18_Witness ==
  /\ ~IsNone(trainedModel)
  /\ ~Coincide(Val(trainedModel))
  /\ ~IsNone(smoothedFeatures)
  /\ IsAt(Val(smoothedFeatures), Val(trainedModel).goodCentroid)
  /\ ScoreIsOne(Val(classifyPosture(Val(smoothedFeatures), trainedModel)))
  /\ emitted.isGood = "good"

\* the score of the vector the last frame classified
LastScore == Val(classifyPosture(Val(smoothedFeatures), trainedModel))

\* 0 <= distBad / (distGood + distBad) <= 1: neither distance is negative and
\* their sum is not 0 (or the score is the 0.5 of the fallback)
InUnit(score) ==
  \/ score.half
  \/ /\ score.g[1] >= 0 /\ score.g[2] > 0
     /\ score.b[1] >= 0 /\ score.b[2] > 0
     /\ score.g[1] + score.b[1] > 0

\* C19: the score of every classified frame lies in [0, 1], and the frame is
\* good exactly when the score is at least the threshold of the slider
C19_ScoreInUnitAndThreshold ==
  emitted.isGood \in {"good", "bad"} =>
    /\ InUnit(LastScore)
    /\ emitted.isGood = "good" <=> ScoreAtLeast(LastScore, parseFloat10(threshScore))

\* a frame whose score is exactly the threshold has been classified good
C19_Witness ==
  /\ emitted.isGood = "good"
  /\ ~LastScore.half
  /\ ScoreAtLeast(LastScore, parseFloat10(threshScore))
  /\ ~ScoreAbove(LastScore, parseFloat10(threshScore))

\* distGood + distBad < 0.0001: a distance that is not 0 is at least
\* 1 / count, far above 0.0001 for the counts of a store, so the sum is below
\* the limit exactly when both distances are 0
SumBelowLimit(score) == score.g[1] = 0 /\ score.b[1] = 0

AllButLast(samples) == SubSeq(samples, 1, Len(samples) - 1)

\* C21: undoLastSample removes the last sample of the whole store, whatever
\* its tag and the active viewpoint, leaves the other samples and their order,
\* and the model becomes the one of the remaining samples; on an empty store
\* nothing changes and nothing is thrown
C21_UndoRemovesLastAndRetrains ==
  [][ (phase # "boot" /\ trainingSamples.t = "array"
         /\ Becomes(undoLastSample(Cur))) =>
        IF trainingSamples.v = <<>>
          THEN /\ ConfigUnchanged
               /\ persisted' = persisted
               /\ ~undoLastSample(Cur).threw
          ELSE /\ trainingSamples' = Arr(AllButLast(trainingSamples.v))
               /\ ~undoLastSample(Cur).threw
               /\ HasProfile(cameraAngle)
               /\ trainedModel' = ModelOf(AllButLast(trainingSamples.v), cameraAngle) ]_vars

\* an undo that removes a sample tagged with another viewpoint than the active
\* one and leaves the model of the active viewpoint in place
C21_Witness ==
  /\ phase # "boot"
  /\ trainingSamples.t = "array" /\ trainingSamples.v # <<>>
  /\ trainingSamples.v[Len(trainingSamples.v)].angle # cameraAngle
  /\ ~IsNone(trainedModel)
  /\ undoLastSample(Cur).trainingSamples = Arr(AllButLast(trainingSamples.v))
  /\ undoLastSample(Cur).trainedModel = trainedModel

\* C22: a confirmed clearAllSamples leaves an empty store (no sample of any
\* viewpoint) and no model; a declined one leaves the store, the model and the
\* persisted state as they are
C22_ClearEmptiesAllOrNothing ==
  [][ \A confirmed \in BOOLEAN :
        (phase # "boot" /\ Becomes(clearAllSamples(Cur, confirmed))) =>
          IF confirmed
            THEN /\ trainingSamples' = Arr(<<>>)
                 /\ trainedModel' = None
                 /\ ~threw'
            ELSE /\ trainingSamples' = trainingSamples
                 /\ trainedModel' = trainedModel
                 /\ persisted' = persisted ]_vars

\* a store with samples of the active and of another viewpoint and a model,
\* which a confirmed clear empties and a declined clear keeps
C22_Witness ==
  /\ phase # "boot"
  /\ ~IsNone(trainedModel)
  /\ trainingSamples.t = "array"
  /\ \E i \in DOMAIN trainingSamples.v : trainingSamples.v[i].angle # cameraAngle
  /\ clearAllSamples(Cur, TRUE).trainingSamples = Arr(<<>>)
  /\ IsNone(clearAllSamples(Cur, TRUE).trainedModel)
  /\ clearAllSamples(Cur, FALSE).trainingSamples = trainingSamples

\* C23: while the overlay is shown, a hide timer is pending that is due no
\* later than 5 s after the last fire, and time has not passed it: the overlay
\* is hidden 5 s after a fire at the latest, whatever the frames in between;
\* and every fire, also a later one of the same episode, shows the overlay
C23_OverlayHiddenWithin5s ==
  /\ [](~overlayHidden =>
          \E i \in DOMAIN hideTimers :
            /\ TimeOrigin + hideTimers[i] <= lastAlertTime + HIDE_DELAY
            /\ clock <= hideTimers[i])
  /\ [][ /\ emitted'.fire => ~overlayHidden'
         /\ HideTimer => overlayHidden' ]_vars

\* in the middle of a bad episode that has fired, the overlay has been hidden
\* by its timer and a bad frame now fires and shows it again
C23_Witness ==
  /\ overlayHidden
  /\ ~NoBadSince(Cur)
  /\ lastAlertTime > Val(badPostureSince)
  /\ handleAlerts(Cur, Some(FALSE), TRUE).emitted.fire
  /\ ~handleAlerts(Cur, Some(FALSE), TRUE).overlayHidden

\* tick times of the episode session
TickTimes == {k * TickStep : k \in 0..(MaxClockEpisode \div TickStep)}

\* from a fire to the first tick at least the cooldown later
CooldownWait ==
  TickStep * (IF Cooldown <= TickStep THEN 1
              ELSE (Cooldown + TickStep - 1) \div TickStep)

\* a frame was classified bad at t, early enough for the delay to elapse
BadAt(t) ==
  /\ emitted.isGood = "bad"
  /\ clock = t
  /\ t + Delay + TickStep + TickStep <= MaxClockEpisode

\* a fire at t, early enough for the cooldown to elapse
FiredAt(t) == emitted.fire /\ clock = t /\ t + CooldownWait <= MaxClockEpisode

\* a fire on the first tick at least the cooldown after t
FiredAgainAfter(t) == emitted.fire /\ clock = t + CooldownWait

\* C24: while ticks keep coming and every frame is classified bad, a frame
\* classified bad leads to a fire, and every fire leads to another fire on the
\* first frame at least the cooldown later (as far as the session lasts)
C24_BadEpisodeKeepsFiring ==
  \A t \in TickTimes :
    /\ BadAt(t) ~> emitted.fire
    /\ FiredAt(t) ~> FiredAgainAfter(t)

\* the third fire of one episode with cooldown 2 s
C24_Witness ==
  /\ emitted.fire
  /\ alertCooldown = "2"
  /\ ~IsNone(badPostureSince)
  /\ Now >= Val(badPostureSince) + TickStep + CooldownWait + CooldownWait
  /\ lastAlertTime = Now

\* C25: while the relay socket is closed a reconnect timer is pending and not
\* overdue; every close starts that timer with the fixed delay of 3 s, and the
\* timer's callback makes a new connection attempt, close after close
C25_ClosedSocketHasReconnectPending ==
  /\ [](ws = "CLOSED" =>
          /\ reconnectTimers # <<>>
          /\ \A i \in DOMAIN reconnectTimers : clock <= reconnectTimers[i])
  /\ [][ /\ (ws # "CLOSED" /\ ws' = "CLOSED") =>
              reconnectTimers' = Append(reconnectTimers, clock' + RECONNECT_DELAY)
         /\ Reconnect => ws' = "CONNECTING" ]_vars

\* the socket has closed again after a reconnect
C25_Witness ==
  /\ ws = "CLOSED"
  /\ reconnectTimers # <<>>
  /\ Head(reconnectTimers) >= RECONNECT_DELAY + RECONNECT_DELAY

\* C26: while the app is running exactly one invocation of detect is
\* scheduled: every invocation, whatever its path, has scheduled the next one
\* when it ends, and nothing else schedules one
C26_OneFrameAlwaysScheduled == running => rafPending = 1

\* a frame after which no further frame is scheduled
C26_LoopStopped ==
  /\ running
  /\ phase = "running"
  /\ rafPending = 0
  /\ threw

\* C27: a tick whose timestamp is that of the previous tick changes nothing of
\* the smoothed vector, the current features, the model, badSince, lastFired,
\* the overlay and the title flash, emits nothing, and leaves one invocation
\* scheduled
C27_DuplicateTickIsSkipped ==
  [][ (FrameUpTo(MaxClockAlert) /\ clock' = lastFrameTime) =>
        /\ smoothedFeatures' = smoothedFeatures
        /\ currentFeatures' = currentFeatures
        /\ trainedModel' = trainedModel
        /\ badPostureSince' = badPostureSince
        /\ lastAlertTime' = lastAlertTime
        /\ overlayHidden' = overlayHidden
        /\ titleFlashInterval' = titleFlashInterval
        /\ hideTimers' = hideTimers
        /\ lastFrameTime' = lastFrameTime
        /\ emitted' = Quiet
        /\ rafPending' = rafPending ]_vars

\* a tick with the timestamp of the previous one arrives in a state in which a
\* processed bad frame would fire, and is skipped
C27_Witness ==
  /\ running
  /\ rafPending > 0
  /\ clock = lastFrameTime
  /\ ~IsNone(smoothedFeatures)
  /\ handleAlerts(Cur, Some(FALSE), TRUE).emitted.fire
  /\ detect(Cur, [kind |-> "pose", pose |-> Slouched], TRUE).emitted = Quiet
  /\ detect(Cur, [kind |-> "pose", pose |-> Slouched], TRUE).smoothedFeatures
       = smoothedFeatures

\* the state of a page just loaded in which localStorage holds what s has
\* persisted
Reloaded(s) ==
  [s EXCEPT !.cameraAngle = "front", !.currentFeatures = None,
            !.smoothedFeatures = None, !.trainingSamples = Arr(<<>>),
            !.trainedModel = None, !.selectedSound = "chime",
            !.threshScore = "0.5", !.alertDelay = "5", !.alertCooldown = "30",
            !.soundEnabled = TRUE, !.notifyEnabled = TRUE,
            !.emitted = Quiet, !.threw = FALSE]

\* the persisted text is the configuration of s
InSync(s) == s.persisted = Some(ObjectText(configObject(s, Undef)))

\* loading what s has persisted gives the viewpoint, the store, the settings
\* and the model of s
Restores(s) ==
  LET l == applyConfig(Reloaded(s), Val(s.persisted))
  IN /\ ~l.threw
     /\ configObject(l, Undef) = configObject(s, Undef)
     /\ l.trainedModel = s.trainedModel

\* the states in which the handlers that save would end, run from the current
\* state to completion: a capture that appends, an undo that removes, a
\* confirmed clear, a viewpoint switch, a settings change, a successful import
SavingRuns ==
  { r \in {captureSample(After(Cur), label) : label \in {"good", "bad"}}
            \cup {undoLastSample(After(Cur)), clearAllSamples(After(Cur), TRUE)} :
      r.trainingSamples # trainingSamples \/ r.trainingSamples = Arr(<<>>) }
    \cup {selectAngle(After(Cur), angle) : angle \in ClickAngles}
    \cup {changeSetting(After(Cur), c) : c \in SettingChanges}
    \cup { r \in {importConfig(After(Cur), text) : text \in {GoodConfig, TopConfig}} :
             r.configStatus = "imported" }

\* C28: after every completed capture, undo, confirmed clear, viewpoint
\* switch, settings change and successful import the persisted text holds the
\* viewpoint, the store and the settings of the state, and loading it at the
\* next start restores them and the same model
C28_SavedStateRestores ==
  phase # "boot" =>
    \A r \in SavingRuns : ~r.threw => InSync(r) /\ Restores(r)

\* the settings were changed and saved while the model is not the one of the
\* stored samples
C28_SavedWithStaleModel ==
  /\ InSync(Cur)
  /\ ~IsNone(trainedModel)
  /\ ~HasProfile(cameraAngle)

(***************************************************************************)
(* Metric functions and keypoint visibility                                *)
(***************************************************************************)
\* the keypoints whose coordinates the result of fn is computed from
Contributing(fn, norm) ==
  CASE fn = "shoulderTilt" -> {11, 12}
    [] fn = "spineAngle" ->
         IF norm[23].visibility < 20 \/ norm[24].visibility < 20
         THEN {0, 11, 12}
         ELSE {11, 12, 23, 24}
    [] OTHER -> {0, 11, 12}

\* the visibility limit of a metric: 0.3 for the two angles in space (0.4 for
\* the nose of neckAngle), 0.4 for the others
Limit(fn, i) ==
  CASE fn = "spineAngle" -> 30
    [] fn = "neckAngle" -> IF i = 0 THEN 40 ELSE 30
    [] OTHER -> 40

ZeroWhenUnseen(fn) ==
  (~IsNone(measured) /\ Val(measured).fn = fn)
    => \A i \in Contributing(fn, landmarks.norm) :
         landmarks.norm[i].visibility < Limit(fn, i) => Val(measured).value = 0

\* C29: a metric function returns 0 whenever a keypoint its result is computed
\* from has a visibility below the metric's limit; on the fallback path of
\* spineAngle these keypoints are the nose and the shoulders.
C29_UnseenKeypointGivesZero == \A fn \in FeatureFns : ZeroWhenUnseen(fn)

\* the metrics other than spineAngle
C29_OtherMetricsGiveZero == \A fn \in FeatureFns \ {"spineAngle"} : ZeroWhenUnseen(fn)

\* spineAngle has taken the fallback path with an unseen nose and returned an angle
C29_FallbackWithUnseenNose ==
  /\ ~IsNone(measured)
  /\ Val(measured).fn = "spineAngle"
  /\ landmarks.norm[23].visibility < 20
  /\ landmarks.norm[0].visibility < 30
  /\ Val(measured).value # 0

\* a metric other than spineAngle has returned a value other than 0
C29_MetricMeasured ==
  /\ ~IsNone(measured)
  /\ Val(measured).fn # "spineAngle"
  /\ Val(measured).value # 0

(***************************************************************************)
(* Hide timers of earlier fires                                            *)
(***************************************************************************)
\* the overlay or the title flash is active before the step and not after it
IndicationEnds ==
  \/ ~overlayHidden /\ overlayHidden'
  \/ ~IsNone(titleFlashInterval) /\ IsNone(titleFlashInterval')

\* C30: the overlay and the title flash started by a fire stay active until a
\* frame is classified good or 5 seconds have passed since that fire; the
\* timer of an earlier fire does not end them.
C30_TimerSparesLaterFire ==
  [][ IndicationEnds
        => \/ emitted'.isGood = "good"
           \/ TimeOrigin + clock' >= lastAlertTime + HIDE_DELAY ]_vars

\* the indication of the last fire is active, less than 5 seconds old, and
\* the timer of an earlier fire is pending
C30_EarlierTimerPending ==
  /\ ~overlayHidden
  /\ ~IsNone(titleFlashInterval)
  /\ Len(hideTimers) >= 2
  /\ TimeOrigin + Head(hideTimers) < lastAlertTime + HIDE_DELAY

(***************************************************************************)
(* Stored samples are snapshots                                            *)
(***************************************************************************)
IsPrefix(a, b) == Len(a) <= Len(b) /\ SubSeq(b, 1, Len(a)) = a

\* every stored sample is still stored, in its place and as it was
SamplesKept ==
  /\ trainingSamples'.t = "array"
  /\ IsPrefix(trainingSamples.v, trainingSamples'.v)

\* C31: a stored sample is never altered, and samples leave the store only
\* through undo, clear or a successful import
C31_SamplesAreSnapshots ==
  [][ (phase # "boot" /\ trainingSamples.t = "array") =>
        \/ SamplesKept
        \/ Undo
        \/ Clear
        \/ ImportFrom({GoodConfig, TopConfig}) /\ configStatus' \notin FailureStatus ]_vars

\* C31 for the handlers other than import: frames, captures, viewpoint
\* switches, undo and clear
C31_HandlersKeepSamples ==
  [][ (phase # "boot" /\ trainingSamples.t = "array"
         /\ (Frame \/ Capture \/ SelectAngle))
        => SamplesKept ]_vars

\* a failed import has replaced the store
C31_StoreReplacedByFailedImport ==
  /\ configStatus \in FailureStatus
  /\ trainingSamples = Arr(<<>>)
  /\ ~IsNone(trainedModel)

(***************************************************************************)
(* The model a frame is scored against                                     *)
(***************************************************************************)
\* the step is a frame that has been classified
Classified == emitted'.isGood \in {"good", "bad"}

\* C32: every frame is scored against the model of the store and the
\* viewpoint as they are when the frame runs; the handlers that change them
\* have retrained before
C32_FrameScoredAgainstCurrentModel ==
  [][ Classified =>
        /\ trainingSamples.t = "array"
        /\ HasProfile(cameraAngle)
        /\ trainedModel = ModelOf(trainingSamples.v, cameraAngle) ]_vars

\* a model of the front samples while the viewpoint is "side-left" and the
\* store is no list
C32_ModelOfEarlierStore ==
  /\ running
  /\ cameraAngle = "side-left"
  /\ trainingSamples.t # "array"
  /\ ~IsNone(trainedModel)

(***************************************************************************)
(* Overlay, title flash and title                                          *)
(***************************************************************************)
\* C33: after every handler the overlay is visible exactly when a title
\* flash interval is active, at most one interval exists (none when no
\* interval is recorded as active), and without an active interval the title
\* is the default string
C33_OverlayIffSingleFlash ==
  /\ ~overlayHidden <=> ~IsNone(titleFlashInterval)
  /\ activeIntervals = (IF IsNone(titleFlashInterval) THEN 0 ELSE 1)
  /\ IsNone(titleFlashInterval) => title = TITLE_DEFAULT

\* a fire while the interval of an earlier fire was active, with the alert
\* title showing
C33_Witness ==
  /\ emitted.fire
  /\ Len(hideTimers) >= 2
  /\ Head(hideTimers) > clock
  /\ activeIntervals = 1
  /\ title = TITLE_ALERT

(***************************************************************************)
(* What leaves the bad episode alone                                       *)
(***************************************************************************)
EpisodeKept ==
  /\ badPostureSince' = badPostureSince
  /\ lastAlertTime' = lastAlertTime

\* the step is a frame classified bad in an episode whose delay and cooldown
\* have elapsed
BadFrameDue ==
  /\ emitted'.isGood = "bad"
  /\ ~NoBadSince(Cur)
  /\ Now' - Val(badPostureSince) >= Delay
  /\ Now' - lastAlertTime >= Cooldown

\* the step is one of the handlers that have no part in the episode
EpisodeBystander ==
  \/ Capture
  \/ Undo
  \/ Clear
  \/ SelectAngle
  \/ ImportFrom({GoodConfig, TopConfig})
  \/ BlindFrameUpTo(MaxClockSurvive)

\* C34: capture, undo, clear, viewpoint switch, import, a frame without a
\* pose and a frame with a detection error leave badSince and lastFired as
\* they are; so a bad frame fires whenever delay and cooldown have elapsed
\* since them, also the first one after an interval without a model
\* (stated as: a step that changes one of them is none of these handlers)
C34_EpisodeSurvivesHandlers ==
  [][ /\ ~EpisodeKept => ~EpisodeBystander
      /\ BadFrameDue => emitted'.fire ]_vars

\* the model is unknown in the middle of an episode, after a frame reported
\* unknown; when the user goes back to "front", the next slouched frame fires
C34_Witness ==
  /\ emitted.isGood = "unknown"
  /\ cameraAngle = "side-left"
  /\ ~NoBadSince(Cur)
  /\ clock + TickStep <= MaxClockSurvive
  /\ detect([After(selectAngle(Cur, "front"))
               EXCEPT !.clock = clock + TickStep, !.rafPending = @ - 1],
            [kind |-> "pose", pose |-> Slouched], TRUE).emitted.fire

(***************************************************************************)
(* One socket or one reconnect timer                                       *)
(***************************************************************************)
\* sockets that are connecting or open
LiveSockets == IF ws \in {"CONNECTING", "OPEN"} THEN 1 ELSE 0

\* C35: once init has connected, there is in total exactly one live socket or
\* pending reconnect timer, whatever closes and errors have happened, and a
\* relay message is sent only while the socket is open
C35_OneSocketOrReconnect ==
  /\ phase # "boot" => LiveSockets + Len(reconnectTimers) = 1
  /\ emitted.relay > 0 => ws = "OPEN"

\* the second reconnect attempt: two sockets have closed, one timer each
C35_Witness ==
  /\ ws = "CONNECTING"
  /\ reconnectTimers = <<>>
  /\ clock >= RECONNECT_DELAY + RECONNECT_DELAY

=============================================================================
